---- MODULE Spec2Model ----
(***************************************************************************)
(* LightPillar (src/js/lightpillar.js): the life cycle of one instance.    *)
(*                                                                         *)
(* One JavaScript thread runs the constructor, the frame callback, the     *)
(* pointer and resize listeners, the two setTimeout callbacks and          *)
(* destroy(); each of them runs to completion, so each is one action.      *)
(* The host is modelled by what the code consumes of it: the container's   *)
(* content box, the set of pending animation-frame requests, the set of    *)
(* pending timers with the milliseconds each still has to wait, the        *)
(* listeners registered on the container and the window, and how often     *)
(* each three.js resource was disposed.                                    *)
(*                                                                         *)
(* Units: timers count milliseconds. this.time is kept in 1/10000 s and    *)
(* rotationSpeed in tenths, so 0.016 * rotationSpeed is                    *)
(* FixedIncrement * rotationSpeed exactly. The numeric options are kept in *)
(* thousandths and the device pixel ratio in hundredths.                   *)
(*                                                                         *)
(* The raymarch loop of the fragment shader is a second, independent state *)
(* machine: one pass of its body per step, over lengths in 1/10000, with   *)
(* the blended field value of each pass chosen freely.                     *)
(***************************************************************************)
EXTENDS Integers, Sequences, FiniteSets, TLC

(* ---------------- bounds of the model ---------------- *)

\* container width and height range over 0..MaxDim
MaxDim == 1
\* the frame callback runs at most MaxFrames times
MaxFrames == 3
\* destroy() is called at most MaxDestroys times
MaxDestroys == 2

(* ---------------- program constants ---------------- *)

\* setTimeout(..., 16) of the pointer throttle
ThrottleMs == 16
\* setTimeout(..., 150) of the resize debounce
DebounceMs == 150
\* this.time += 0.016 * rotationSpeed, in 1/1000 s
FixedIncrement == 16
\* options.rotationSpeed || 0.3, in tenths
DefaultRotationSpeed == 3
\* options.intensity || 1.0, in thousandths
DefaultIntensity == 1000
\* options.glowAmount || 0.005, in thousandths
DefaultGlowAmount == 5
\* options.pillarWidth || 3.0, in thousandths
DefaultPillarWidth == 3000
\* options.pillarHeight || 0.4, in thousandths
DefaultPillarHeight == 400
\* options.noiseIntensity || 0.5, in thousandths
DefaultNoiseIntensity == 500
\* Math.min(window.devicePixelRatio, 2), in hundredths
MaxPixelRatio == 200
\* a window.devicePixelRatio of 1, in hundredths
RatioOne == 100
\* const float EPSILON = 0.001, in 1/10000
EPSILON == 10
\* float maxDepth = 50.0, in 1/10000
maxDepth == 500000
\* float depth = 0.1, in 1/10000
InitialDepth == 1000
\* for(float i = 0.0; i < 100.0; i++)
MaxIterations == 100
\* abs(fieldDistance) * 0.15 + 0.01: the factor in hundredths, the term in 1/10000
StepScale == 15
StepFloor == 100

Dims == 0..MaxDim
Sizes == Dims \X Dims

\* a field that was never assigned / holds null
Null == 0

\* an option of the options bag: absent, or present with a value
NotGiven == [given |-> FALSE, v |-> 0]
Given(x) == [given |-> TRUE, v |-> x]
\* rotationSpeed values a caller may supply, in tenths
SuppliedSpeeds == {NotGiven, Given(0), Given(10), Given(-10)}
SuppliedFlags == {NotGiven, Given(FALSE), Given(TRUE)}
\* intensity, glowAmount, pillarWidth, pillarHeight and noiseIntensity values a
\* caller may supply, in thousandths
SuppliedAmounts == {NotGiven, Given(-1000), Given(0), Given(2000)}
\* window.devicePixelRatio of the displays the page may be on, in hundredths
Ratios == {RatioOne \div 2, RatioOne, (3 * RatioOne) \div 2, 2 * RatioOne, 3 * RatioOne}

VARIABLES
    constructed,      \* new LightPillar(...) has returned
    container,        \* this.container: TRUE when getElementById found the element
    clientSize,       \* the container's clientWidth, clientHeight right now
    options,          \* this.options (defined = FALSE when the constructor returned early)
    mouse,            \* this.mouse, the vector bound to uMouse
    time,             \* this.time
    rafId,            \* this.rafId: Null or the handle of the last request
    renderer,         \* this.renderer is set
    material,         \* this.material is set
    geometry,         \* this.geometry is set
    scene,            \* this.scene and this.camera are set
    handleMouseMove,  \* this.handleMouseMove is set
    handleResize,     \* this.handleResize is set
    mouseMoveTimeout, \* closure variable of handleMouseMove
    resizeTimeout,    \* closure variable of handleResize
    mouseListener,    \* 'mousemove' listener registered on the container
    resizeListener,   \* 'resize' listener registered on the window
    frames,           \* handles of the pending requestAnimationFrame callbacks
    timers,           \* pending setTimeout callbacks
    surfaceSize,      \* size last given to renderer.setSize
    uResolution,      \* material.uniforms.uResolution.value
    uTime,            \* material.uniforms.uTime.value
    background,       \* container.style.background
    released,         \* dispose() calls per owned resource
    thrown,           \* an operation raised an error to its caller
    destroyCalls,     \* destroy() calls made so far
    frameCount,       \* renderer.render calls made so far
    drawSize,         \* surface size at the last renderer.render call
    usedAfterRelease, \* the resize callback wrote to a disposed renderer/material
    applied,          \* resize applications since the last resize event
    sinceResize,      \* ms since the last resize event, saturating at DebounceMs
    accepts,          \* accepted pointer updates, saturating at 2
    dropped,          \* a pointer event was dropped by the throttle
    sinceAccept,      \* ms since the last accepted pointer update, saturating
    minGap,           \* smallest gap seen between two accepted pointer updates
    burst,            \* resize events of the current burst, saturating at 2
    inputs,           \* what the constructor was called with and found
    uMouse,           \* material.uniforms.uMouse.value
    pointerStale,     \* the last pointer event since the last frame is not in this.mouse
    pendingResize,    \* a resize event arrived since the last frame
    lastAccepted,     \* position of the last pointer event the throttle accepted
    lastApplied,      \* size given to the last renderer.setSize call
    pixelRatio,       \* ratio last given to renderer.setPixelRatio, Null before
    iteration,        \* i of the raymarch loop of the fragment being shaded
    depth,            \* depth of that loop
    fieldDistance,    \* fieldDistance after the loop's last assignment to it
    marchExit         \* how that loop ended, "running" while it has not

instance == <<constructed, container, clientSize, options, mouse, time, rafId,
          renderer, material, geometry, scene, handleMouseMove, handleResize,
          mouseMoveTimeout, resizeTimeout, mouseListener, resizeListener,
          frames, timers, surfaceSize, uResolution, uTime, background,
          released, thrown, destroyCalls, frameCount, drawSize,
          usedAfterRelease, applied, sinceResize, accepts, dropped,
          sinceAccept, minGap, burst, inputs, uMouse, pointerStale,
          pendingResize, lastAccepted, lastApplied, pixelRatio>>

\* the raymarch loop of one fragment
march == <<iteration, depth, fieldDistance, marchExit>>

vars == <<instance, march>>

\* the bookkeeping of the pointer throttle and of the resize debounce
ghostPointer == <<accepts, dropped, sinceAccept, minGap>>
ghostResize == <<usedAfterRelease, applied, sinceResize, burst>>
\* the bookkeeping of what reached a frame's draw
ghostDraw == <<pointerStale, pendingResize, lastAccepted, lastApplied>>

Min(a, b) == IF a <= b THEN a ELSE b
Max(a, b) == IF a >= b THEN a ELSE b

(* ---------------- helpers ---------------- *)

RECURSIVE GCD(_, _)
GCD(a, b) == IF b = 0 THEN a ELSE GCD(b, a % b)

Abs(a) == IF a < 0 THEN -a ELSE a

\* a JavaScript number n/d in lowest terms; d = 0 is what a division by zero
\* yields: <<0, 0>> is NaN, <<1, 0>> and <<-1, 0>> are +Infinity and -Infinity
Frac(n, d) ==
    IF d = 0 THEN <<IF n > 0 THEN 1 ELSE IF n < 0 THEN -1 ELSE 0, 0>>
    ELSE LET g == GCD(Abs(n), Abs(d)) IN <<n \div g, d \div g>>

\* new THREE.Vector2(0, 0)
ZeroVector == <<Frac(0, 1), Frac(0, 1)>>

\* the smallest handle the host has not handed out and that nobody still holds
NewHandle(used) ==
    CHOOSE n \in 1..(Cardinality(used) + 1) :
        n \notin used /\ \A m \in 1..(n - 1) : m \in used

\* options.rotationSpeed || 0.3: an absent value and 0 both give the default
NumberOrDefault(supplied, default) ==
    IF supplied.given /\ supplied.v # 0 THEN supplied.v ELSE default

\* options.interactive || false
FlagOrDefault(supplied, default) ==
    IF supplied.given /\ supplied.v THEN TRUE ELSE default

UndefinedOptions ==
    [defined |-> FALSE, interactive |-> FALSE, rotationSpeed |-> 0,
     intensity |-> 0, glowAmount |-> 0, pillarWidth |-> 0, pillarHeight |-> 0,
     noiseIntensity |-> 0]

\* this.options = { ... } of the constructor
Defaults(opts) ==
    [defined |-> TRUE,
     interactive |-> FlagOrDefault(opts.interactive, FALSE),
     rotationSpeed |-> NumberOrDefault(opts.rotationSpeed, DefaultRotationSpeed),
     intensity |-> NumberOrDefault(opts.intensity, DefaultIntensity),
     glowAmount |-> NumberOrDefault(opts.glowAmount, DefaultGlowAmount),
     pillarWidth |-> NumberOrDefault(opts.pillarWidth, DefaultPillarWidth),
     pillarHeight |-> NumberOrDefault(opts.pillarHeight, DefaultPillarHeight),
     noiseIntensity |-> NumberOrDefault(opts.noiseIntensity, DefaultNoiseIntensity)]

\* options = {}: the bag of a caller who supplies nothing
NoOptions ==
    [interactive |-> NotGiven, rotationSpeed |-> NotGiven, intensity |-> NotGiven,
     glowAmount |-> NotGiven, pillarWidth |-> NotGiven, pillarHeight |-> NotGiven,
     noiseIntensity |-> NotGiven]

Supplied ==
    {[NoOptions EXCEPT !.interactive = i, !.rotationSpeed = r] :
        i \in SuppliedFlags, r \in SuppliedSpeeds}

\* the bags that supply the numeric options of the shader
SuppliedConfigs ==
    {[NoOptions EXCEPT !.intensity = i, !.glowAmount = g, !.pillarWidth = w,
                       !.pillarHeight = h, !.noiseIntensity = n] :
        i \in SuppliedAmounts, g \in SuppliedAmounts, w \in SuppliedAmounts,
        h \in SuppliedAmounts, n \in SuppliedAmounts}

\* the constructor's arguments and what the host answered it
NoInputs ==
    [found |-> FALSE, gl |-> FALSE, rendererOk |-> FALSE, dpr |-> RatioOne,
     opts |-> NoOptions]

NoReleases == [renderer |-> 0, material |-> 0, geometry |-> 0]

(* ---------------- the code, piece by piece ---------------- *)

\* a probe whose answer init() ignores
ProbeNeverUnsupported(gl) == FALSE

\* if (!gl) { this.showFallback(); return; }
ProbeUnsupported(gl) == ~gl

\* the try block of setupRenderer: the WebGLRenderer constructor throws before
\* this.renderer is assigned, and the catch calls showFallback()
RendererCreated(rendererOk) == rendererOk

\* if (!this.material || !this.renderer || !this.scene || !this.camera) return;
AnimateGuard(mat, rend, sc) == mat /\ rend /\ sc

\* a frame that takes the increment off the time
AdvancedBackwards(t, speed) == t - FixedIncrement * speed

\* this.time += 0.016 * this.options.rotationSpeed
Advanced(t, speed) == t + FixedIncrement * speed

\* an animate() that requests the next frame without keeping its handle
DroppedHandle(old, h) == old

\* this.rafId = requestAnimationFrame(...)
StoredHandle(old, h) == h

\* animate(): the state it reads, in a record, to the state it leaves
Animate(s) ==
    IF ~AnimateGuard(s.material, s.renderer, s.scene) THEN s
    ELSE LET t == Advanced(s.time, s.speed)
             h == NewHandle(s.frames \cup {s.rafId})
         IN [s EXCEPT !.time = t,
                      !.uTime = t,
                      !.frameCount = s.frameCount + 1,
                      !.drawSize = s.surfaceSize,
                      !.rafId = StoredHandle(s.rafId, h),
                      !.frames = s.frames \cup {h}]

\* a destroy() that leaves the pending frame request alone
CancelFrameSkipped(rid, pending) == pending

\* cancelAnimationFrame(this.rafId) under if (this.rafId)
CancelFrame(rid, pending) ==
    IF rid # Null THEN pending \ {rid} ELSE pending

\* a handleResize that does not clear the timer of the previous event
ClearTimeoutSkipped(id, pending) == pending

\* clearTimeout(id) under if (id)
ClearTimeout(id, pending) ==
    IF id # Null THEN {t \in pending : t.id # id} ELSE pending

\* setTimeout(callback, ms): the pending timers with the new one
SetTimeout(id, kind, ms, pending) ==
    pending \cup {[id |-> id, kind |-> kind, left |-> ms]}

TimerIds == {t.id : t \in timers} \cup {mouseMoveTimeout, resizeTimeout}

\* x = ((clientX - rect.left) / rect.width) * 2 - 1
\* y = -((clientY - rect.top) / rect.height) * 2 + 1
\* for a pointer px, py pixels right of and below the rectangle's corner
Normalize(px, py, rect) ==
    <<Frac(2 * px - rect[1], rect[1]), Frac(rect[2] - 2 * py, rect[2])>>

\* a uniform that was given a copy of the vector: it keeps its old value
CopiedVector(old, new) == old

\* uMouse: { value: this.mouse }: the uniform holds the very vector that
\* this.mouse.set(x, y) writes, so it reads the new value
SharedVector(old, new) == new

\* a setPixelRatio that is given the display's ratio as it is
PixelRatioUnclamped(dpr) == dpr

\* Math.min(window.devicePixelRatio, 2)
PixelRatio(dpr) == Min(dpr, MaxPixelRatio)

\* a setupEventListeners that registers the pointer listener in every mode
ListensAlways(interactive) == TRUE

\* if (this.options.interactive) { ... addEventListener('mousemove', ...) }
ListensToPointer(interactive) == interactive

\* a component of a vector is NaN
IsNaN(x) == x = Frac(0, 0)

\* mat2 rotX = rot(uTime * 0.3);
\* if(uInteractive && length(uMouse) > 0.0) rotX = rot(uMouse.x * PI * 2.0);
\* the sources the rotation angle of a frame can have; the comparison of a
\* NaN length is left to the GLSL implementation
AngleSources(interactive, m) ==
    IF ~interactive THEN {"time"}
    ELSE IF IsNaN(m[1]) \/ IsNaN(m[2]) THEN {"time", "pointer"}
    ELSE IF m = ZeroVector THEN {"time"}
    ELSE {"pointer"}

\* the values of blendMax(radialBound, fieldDistance, 1.0) a position may
\* have, in 1/10000: far inside the pillar, on the surface, near it, far outside
FieldValues == {-400000, 0, 10000, 400000}

\* a step that is the scaled distance alone
StepLengthNoFloor(f) == (Abs(f) * StepScale) \div 100

\* fieldDistance = abs(fieldDistance) * 0.15 + 0.01
StepLength(f) == (Abs(f) * StepScale) \div 100 + StepFloor

\* if (X) { X.dispose(); }: the dispose count of a resource after destroy()
Dispose(isSet, count) == IF isSet THEN count + 1 ELSE count

(* ---------------- the state before new LightPillar(...) ---------------- *)

Init ==
    /\ constructed = FALSE
    /\ container = FALSE
    /\ clientSize = <<0, 0>>
    /\ options = UndefinedOptions
    /\ mouse = ZeroVector
    /\ time = 0
    /\ rafId = Null
    /\ renderer = FALSE
    /\ material = FALSE
    /\ geometry = FALSE
    /\ scene = FALSE
    /\ handleMouseMove = FALSE
    /\ handleResize = FALSE
    /\ mouseMoveTimeout = Null
    /\ resizeTimeout = Null
    /\ mouseListener = FALSE
    /\ resizeListener = FALSE
    /\ frames = {}
    /\ timers = {}
    /\ surfaceSize = <<0, 0>>
    /\ uResolution = <<0, 0>>
    /\ uTime = 0
    /\ background = "initial"
    /\ released = NoReleases
    /\ thrown = FALSE
    /\ destroyCalls = 0
    /\ frameCount = 0
    /\ drawSize = <<>>
    /\ usedAfterRelease = FALSE
    /\ applied = 0
    /\ sinceResize = DebounceMs
    /\ accepts = 0
    /\ dropped = FALSE
    /\ sinceAccept = ThrottleMs
    /\ minGap = ThrottleMs
    /\ burst = 0
    /\ inputs = NoInputs
    /\ uMouse = ZeroVector
    /\ pointerStale = FALSE
    /\ pendingResize = FALSE
    /\ lastAccepted = ZeroVector
    /\ lastApplied = <<0, 0>>
    /\ pixelRatio = Null
    /\ iteration = 0
    /\ depth = InitialDepth
    /\ fieldDistance = 0
    /\ marchExit = "running"

(* ---------------- constructor and init() ---------------- *)

\* what animate() reads and writes
AnimateState ==
    [time |-> time, uTime |-> uTime, frameCount |-> frameCount,
     drawSize |-> drawSize, rafId |-> rafId, frames |-> frames,
     material |-> material, renderer |-> renderer, scene |-> scene,
     speed |-> options.rotationSpeed, surfaceSize |-> surfaceSize]

\* new LightPillar(containerId, opts) where getElementById finds the element
\* or not, the container measures size, getContext gives a context or null
\* and the WebGLRenderer constructor succeeds or throws, on a display of
\* device pixel ratio dpr
Construct(found, size, gl, rendererOk, dpr, opts) ==
    /\ UNCHANGED march
    /\ ~constructed
    /\ constructed' = TRUE
    /\ inputs' = [found |-> found, gl |-> gl, rendererOk |-> rendererOk,
                  dpr |-> dpr, opts |-> opts]
    /\ UNCHANGED <<mouseMoveTimeout, resizeTimeout, timers, released, thrown,
                   destroyCalls, ghostPointer, ghostResize, mouse,
                   uMouse, pointerStale, pendingResize, lastAccepted>>
    /\ IF ~found
       THEN \* if (!this.container) return;
            \* (the inputs nothing reads are fixed)
            /\ size = <<0, 0>> /\ gl /\ rendererOk /\ dpr = RatioOne
            /\ opts = NoOptions
            /\ UNCHANGED <<container, clientSize, options, time, rafId, renderer,
                           material, geometry, scene, handleMouseMove,
                           handleResize, mouseListener, resizeListener, frames,
                           surfaceSize, uResolution, uTime, background,
                           frameCount, drawSize, lastApplied, pixelRatio>>
       ELSE /\ container' = TRUE
            /\ clientSize' = size
            /\ options' = Defaults(opts)
            /\ IF ProbeUnsupported(gl)
               THEN \* showFallback(); return;
                    /\ rendererOk /\ dpr = RatioOne
                    /\ background' = "transparent"
                    /\ UNCHANGED <<time, rafId, renderer, material, geometry,
                                   scene, handleMouseMove, handleResize,
                                   mouseListener, resizeListener, frames,
                                   surfaceSize, uResolution, uTime, frameCount,
                                   drawSize, lastApplied, pixelRatio>>
               ELSE LET made == RendererCreated(rendererOk)
                        \* renderer.setSize(width, height)
                        sized == IF made THEN size ELSE surfaceSize
                        a == Animate([time |-> 0, uTime |-> 0,
                                      frameCount |-> frameCount,
                                      drawSize |-> drawSize, rafId |-> Null,
                                      frames |-> frames, material |-> TRUE,
                                      renderer |-> made, scene |-> TRUE,
                                      speed |-> options'.rotationSpeed,
                                      surfaceSize |-> sized])
                    IN  \* setupScene
                        /\ scene' = TRUE
                        \* setupRenderer: the renderer, or the catch's showFallback()
                        /\ renderer' = made
                        /\ surfaceSize' = sized
                        \* renderer.setPixelRatio(...), not reached when the
                        \* renderer's constructor threw
                        /\ pixelRatio' = IF made THEN PixelRatio(dpr) ELSE pixelRatio
                        /\ (~made => dpr = RatioOne)
                        /\ background' = IF made THEN background ELSE "transparent"
                        \* setupMaterial, setupMesh
                        /\ material' = TRUE
                        /\ uResolution' = size
                        /\ geometry' = TRUE
                        \* setupEventListeners
                        /\ handleMouseMove' = ListensToPointer(options'.interactive)
                        /\ mouseListener' = ListensToPointer(options'.interactive)
                        /\ handleResize' = TRUE
                        /\ resizeListener' = TRUE
                        \* animate()
                        /\ time' = a.time
                        /\ uTime' = a.uTime
                        /\ frameCount' = a.frameCount
                        /\ drawSize' = a.drawSize
                        /\ lastApplied' = sized
                        /\ rafId' = a.rafId
                        /\ frames' = a.frames

(* ---------------- the frame callback ---------------- *)

\* the host runs the pending callback () => this.animate()
Tick(h) ==
    /\ UNCHANGED march
    /\ UNCHANGED pixelRatio
    /\ h \in frames
    /\ frameCount < MaxFrames
    /\ LET a == Animate([AnimateState EXCEPT !.frames = frames \ {h}])
       IN /\ time' = a.time
          /\ uTime' = a.uTime
          /\ frameCount' = a.frameCount
          /\ drawSize' = a.drawSize
          /\ rafId' = a.rafId
          /\ frames' = a.frames
    /\ pointerStale' = FALSE
    /\ pendingResize' = FALSE
    /\ UNCHANGED <<inputs, uMouse, lastAccepted, lastApplied>>
    /\ UNCHANGED <<constructed, container, clientSize, options, mouse, renderer,
                   material, geometry, scene, handleMouseMove, handleResize,
                   mouseMoveTimeout, resizeTimeout, mouseListener,
                   resizeListener, timers, surfaceSize, uResolution,
                   background, released, thrown, destroyCalls, ghostPointer,
                   ghostResize>>

\* a caller invokes the method animate() of the instance itself
DirectAnimate ==
    /\ UNCHANGED march
    /\ constructed
    /\ frameCount < MaxFrames
    /\ LET a == Animate(AnimateState)
       IN /\ time' = a.time
          /\ uTime' = a.uTime
          /\ frameCount' = a.frameCount
          /\ drawSize' = a.drawSize
          /\ rafId' = a.rafId
          /\ frames' = a.frames
    /\ UNCHANGED <<inputs, uMouse, ghostDraw, pixelRatio>>
    /\ UNCHANGED <<constructed, container, clientSize, options, mouse, renderer,
                   material, geometry, scene, handleMouseMove, handleResize,
                   mouseMoveTimeout, resizeTimeout, mouseListener,
                   resizeListener, timers, surfaceSize, uResolution,
                   background, released, thrown, destroyCalls, ghostPointer,
                   ghostResize>>

(* ---------------- pointer events ---------------- *)

\* a handleMouseMove without its early return
ThrottledNever(handle) == FALSE

\* if (mouseMoveTimeout) return;
Throttled(handle) == handle # Null

\* a 'mousemove' event px, py pixels inside the container's rectangle
PointerMove(px, py) ==
    /\ UNCHANGED march
    /\ UNCHANGED pixelRatio
    /\ mouseListener
    /\ px \in 0..clientSize[1] /\ py \in 0..clientSize[2]
    /\ IF Throttled(mouseMoveTimeout)
       THEN /\ dropped' = TRUE
            /\ pointerStale' = (Normalize(px, py, clientSize) # mouse)
            /\ UNCHANGED <<mouseMoveTimeout, timers, mouse, uMouse, accepts,
                           sinceAccept, minGap, lastAccepted>>
       ELSE LET id == NewHandle(TimerIds)
            IN /\ mouseMoveTimeout' = id
               /\ timers' = SetTimeout(id, "throttle", ThrottleMs, timers)
               /\ mouse' = Normalize(px, py, clientSize)
               /\ uMouse' = SharedVector(uMouse, mouse')
               /\ pointerStale' = FALSE
               /\ lastAccepted' = Normalize(px, py, clientSize)
               /\ accepts' = Min(accepts + 1, 2)
               /\ minGap' = IF accepts > 0 THEN Min(minGap, sinceAccept) ELSE minGap
               /\ sinceAccept' = 0
               /\ UNCHANGED dropped
    /\ UNCHANGED <<inputs, pendingResize, lastApplied>>
    /\ UNCHANGED <<constructed, container, clientSize, options, time, rafId,
                   renderer, material, geometry, scene, handleMouseMove,
                   handleResize, resizeTimeout, mouseListener, resizeListener,
                   frames, surfaceSize, uResolution, uTime, background,
                   released, thrown, destroyCalls, frameCount, drawSize,
                   ghostResize>>

\* the throttle's timer callback: mouseMoveTimeout = null
ThrottleExpire(t) ==
    /\ UNCHANGED march
    /\ UNCHANGED pixelRatio
    /\ t \in timers /\ t.kind = "throttle" /\ t.left = 0
    /\ timers' = timers \ {t}
    /\ mouseMoveTimeout' = Null
    /\ UNCHANGED <<inputs, uMouse, ghostDraw>>
    /\ UNCHANGED <<constructed, container, clientSize, options, mouse, time,
                   rafId, renderer, material, geometry, scene, handleMouseMove,
                   handleResize, resizeTimeout, mouseListener, resizeListener,
                   frames, surfaceSize, uResolution, uTime, background,
                   released, thrown, destroyCalls, frameCount, drawSize,
                   ghostPointer, ghostResize>>

(* ---------------- resize events ---------------- *)

\* the container's content box changes (layout, CSS, a viewport change)
Layout(size) ==
    /\ UNCHANGED march
    /\ UNCHANGED pixelRatio
    /\ constructed /\ container
    /\ size # clientSize
    /\ clientSize' = size
    /\ UNCHANGED <<inputs, uMouse, ghostDraw>>
    /\ UNCHANGED <<constructed, container, options, mouse, time, rafId,
                   renderer, material, geometry, scene, handleMouseMove,
                   handleResize, mouseMoveTimeout, resizeTimeout,
                   mouseListener, resizeListener, frames, timers, surfaceSize,
                   uResolution, uTime, background, released, thrown,
                   destroyCalls, frameCount, drawSize, ghostPointer,
                   ghostResize>>

\* a 'resize' event of the window: handleResize()
WindowResize ==
    /\ UNCHANGED march
    /\ UNCHANGED pixelRatio
    /\ resizeListener
    /\ LET id == NewHandle(TimerIds)
       IN /\ timers' = SetTimeout(id, "debounce", DebounceMs,
                                  ClearTimeout(resizeTimeout, timers))
          /\ resizeTimeout' = id
    /\ sinceResize' = 0
    /\ applied' = 0
    /\ pendingResize' = TRUE
    /\ burst' = IF sinceResize < DebounceMs THEN Min(burst + 1, 2) ELSE 1
    /\ UNCHANGED <<inputs, uMouse, pointerStale, lastAccepted, lastApplied>>
    /\ UNCHANGED <<constructed, container, clientSize, options, mouse, time,
                   rafId, renderer, material, geometry, scene, handleMouseMove,
                   handleResize, mouseMoveTimeout, mouseListener,
                   resizeListener, frames, surfaceSize, uResolution, uTime,
                   background, released, thrown, destroyCalls, frameCount,
                   drawSize, usedAfterRelease, ghostPointer>>

\* if (!this.renderer || !this.material || !this.container) return;
ResizeGuard(rend, mat, cont) == rend /\ mat /\ cont

\* the debounce's timer callback
DebounceExpire(t) ==
    /\ UNCHANGED march
    /\ UNCHANGED pixelRatio
    /\ t \in timers /\ t.kind = "debounce" /\ t.left = 0
    /\ timers' = timers \ {t}
    /\ IF ResizeGuard(renderer, material, container)
       THEN /\ surfaceSize' = clientSize
            /\ lastApplied' = clientSize
            /\ uResolution' = clientSize
            /\ applied' = Min(applied + 1, 2)
            /\ usedAfterRelease' =
                  (usedAfterRelease \/ released.renderer > 0 \/ released.material > 0)
       ELSE UNCHANGED <<surfaceSize, uResolution, applied, usedAfterRelease,
                        lastApplied>>
    /\ UNCHANGED <<inputs, uMouse, pointerStale, pendingResize, lastAccepted>>
    /\ UNCHANGED <<constructed, container, clientSize, options, mouse, time,
                   rafId, renderer, material, geometry, scene, handleMouseMove,
                   handleResize, mouseMoveTimeout, resizeTimeout,
                   mouseListener, resizeListener, frames, uTime, background,
                   released, thrown, destroyCalls, frameCount, drawSize,
                   sinceResize, burst, ghostPointer>>

(* ---------------- time ---------------- *)

\* d milliseconds pass; a timer whose wait is over may still run later
Advance(d) ==
    /\ UNCHANGED march
    /\ UNCHANGED pixelRatio
    /\ constructed
    /\ timers' = {[t EXCEPT !.left = Max(0, t.left - d)] : t \in timers}
    /\ sinceAccept' = Min(ThrottleMs, sinceAccept + d)
    /\ sinceResize' = Min(DebounceMs, sinceResize + d)
    /\ UNCHANGED <<inputs, uMouse, ghostDraw>>
    /\ UNCHANGED <<constructed, container, clientSize, options, mouse, time,
                   rafId, renderer, material, geometry, scene, handleMouseMove,
                   handleResize, mouseMoveTimeout, resizeTimeout,
                   mouseListener, resizeListener, frames, surfaceSize,
                   uResolution, uTime, background, released, thrown,
                   destroyCalls, frameCount, drawSize, usedAfterRelease,
                   applied, burst, accepts, dropped, minGap>>

(* ---------------- destroy() ---------------- *)

\* this.options.interactive: reading a property of undefined raises a TypeError
ReadsUndefined(opts) == ~opts.defined

Destroy ==
    /\ UNCHANGED march
    /\ UNCHANGED pixelRatio
    /\ constructed
    /\ destroyCalls < MaxDestroys
    /\ destroyCalls' = destroyCalls + 1
    \* if (this.rafId) cancelAnimationFrame(this.rafId)
    /\ frames' = CancelFrame(rafId, frames)
    /\ IF ReadsUndefined(options)
       THEN /\ thrown' = TRUE
            /\ UNCHANGED <<mouseListener, resizeListener, released>>
       ELSE /\ mouseListener' =
                  IF options.interactive /\ handleMouseMove THEN FALSE ELSE mouseListener
            /\ resizeListener' = IF handleResize THEN FALSE ELSE resizeListener
            /\ released' =
                  [renderer |-> Dispose(renderer, released.renderer),
                   material |-> Dispose(material, released.material),
                   geometry |-> Dispose(geometry, released.geometry)]
            /\ UNCHANGED thrown
    /\ UNCHANGED <<inputs, uMouse, ghostDraw>>
    /\ UNCHANGED <<constructed, container, clientSize, options, mouse, time,
                   rafId, renderer, material, geometry, scene, handleMouseMove,
                   handleResize, mouseMoveTimeout, resizeTimeout, timers,
                   surfaceSize, uResolution, uTime, background, frameCount,
                   drawSize, ghostPointer, ghostResize>>

(* ---------------- the raymarch loop of the fragment shader ---------------- *)

\* one pass of the loop's body at a position whose blended field value is f
MarchIteration(f) ==
    /\ marchExit = "running"
    /\ iteration < MaxIterations
    /\ LET fd == StepLength(f)
       IN /\ fieldDistance' = fd
          /\ IF fd < EPSILON
             THEN \* if(fieldDistance < EPSILON || ...) break;
                  /\ marchExit' = "surface"
                  /\ UNCHANGED <<iteration, depth>>
             ELSE IF depth > maxDepth
             THEN \* if(... || depth > maxDepth) break;
                  /\ marchExit' = "depth"
                  /\ UNCHANGED <<iteration, depth>>
             ELSE \* depth += fieldDistance; i++; i < 100.0
                  /\ depth' = depth + fd
                  /\ iteration' = iteration + 1
                  /\ marchExit' = IF iteration + 1 < MaxIterations
                                  THEN "running" ELSE "count"
    /\ UNCHANGED instance

\* main() starts on the next fragment
NextFragment ==
    /\ marchExit # "running"
    /\ iteration' = 0
    /\ depth' = InitialDepth
    /\ fieldDistance' = 0
    /\ marchExit' = "running"
    /\ UNCHANGED instance

(* ---------------- the specifications ---------------- *)

\* the option bags a caller passes: interactive set or not
PlainOptions ==
    {[NoOptions EXCEPT !.interactive = i] : i \in {NotGiven, Given(TRUE)}}

\* The life cycle: every construction outcome, then frames, pointer and
\* resize events, timers and destroy() in every order. Time passes in steps
\* after which every pending timer is due.
Next ==
    \/ \E found \in BOOLEAN, size \in Sizes, gl \in BOOLEAN,
          rendererOk \in BOOLEAN, opts \in PlainOptions :
          Construct(found, size, gl, rendererOk, RatioOne, opts)
    \/ \E h \in frames : Tick(h)
    \/ \E px \in Dims, py \in Dims : PointerMove(px, py)
    \/ \E t \in timers : ThrottleExpire(t)
    \/ WindowResize
    \/ \E t \in timers : DebounceExpire(t)
    \/ Advance(DebounceMs)
    \/ Destroy

Spec == Init /\ [][Next]_vars

\* The frame loop under every rotationSpeed a caller may supply.
NextTime ==
    \/ \E found \in BOOLEAN, size \in Sizes, gl \in BOOLEAN,
          rendererOk \in BOOLEAN, opts \in Supplied :
          Construct(found, size, gl, rendererOk, RatioOne, opts)
    \/ \E h \in frames : Tick(h)
    \/ Destroy

SpecTime == Init /\ [][NextTime]_vars

\* The pointer throttle, with time passing in steps shorter than its window.
NextPointer ==
    \/ \E found \in BOOLEAN, size \in Sizes, gl \in BOOLEAN,
          rendererOk \in BOOLEAN, opts \in PlainOptions :
          Construct(found, size, gl, rendererOk, RatioOne, opts)
    \/ \E px \in Dims, py \in Dims : PointerMove(px, py)
    \/ \E t \in timers : ThrottleExpire(t)
    \/ \E size \in Sizes : Layout(size)
    \/ \E d \in {ThrottleMs \div 2, ThrottleMs} : Advance(d)
    \/ Destroy

SpecPointer == Init /\ [][NextPointer]_vars

\* The resize debounce, with the container's size changing under it and time
\* passing in steps shorter than its quiet period.
NextResize ==
    \/ \E found \in BOOLEAN, size \in Sizes, gl \in BOOLEAN,
          rendererOk \in BOOLEAN :
          Construct(found, size, gl, rendererOk, RatioOne, NoOptions)
    \/ \E h \in frames : Tick(h)
    \/ \E size \in Sizes : Layout(size)
    \/ WindowResize
    \/ \E t \in timers : DebounceExpire(t)
    \/ \E d \in {DebounceMs \div 2, DebounceMs} : Advance(d)
    \/ Destroy

SpecResize == Init /\ [][NextResize]_vars

\* The draws of a fully initialized instance whose container is one pixel
\* high: frames between pointer events along its top edge, resize events and
\* changes of the container's width.
NextDraw ==
    \/ \E w \in Dims, opts \in PlainOptions :
          Construct(TRUE, <<w, 1>>, TRUE, TRUE, RatioOne, opts)
    \/ \E h \in frames : Tick(h)
    \/ \E px \in Dims : PointerMove(px, 0)
    \/ \E t \in timers : ThrottleExpire(t)
    \/ \E w \in Dims : Layout(<<w, clientSize[2]>>)
    \/ WindowResize
    \/ \E t \in timers : DebounceExpire(t)
    \/ Advance(DebounceMs)

SpecDraw == Init /\ [][NextDraw]_vars

\* Construction under every numeric configuration a caller may supply, on
\* displays of every device pixel ratio, followed by frames and destroy().
NextConfig ==
    \/ /\ ~constructed
       /\ \E found \in BOOLEAN, gl \in BOOLEAN, rendererOk \in BOOLEAN,
             dpr \in Ratios, opts \in SuppliedConfigs :
             Construct(found, IF found THEN <<1, 1>> ELSE <<0, 0>>, gl,
                       rendererOk, dpr, opts)
    \/ \E h \in frames : Tick(h)
    \/ Destroy

SpecConfig == Init /\ [][NextConfig]_vars

\* The frame loop with a caller that also invokes animate() itself.
NextDriver ==
    \/ \E found \in BOOLEAN, size \in Sizes, gl \in BOOLEAN,
          rendererOk \in BOOLEAN, opts \in PlainOptions :
          Construct(found, size, gl, rendererOk, RatioOne, opts)
    \/ \E h \in frames : Tick(h)
    \/ DirectAnimate
    \/ Destroy

SpecDriver == Init /\ [][NextDriver]_vars

\* The raymarch loop over every sequence of field values.
NextMarch ==
    \/ \E f \in FieldValues : MarchIteration(f)
    \/ NextFragment

SpecMarch == Init /\ [][NextMarch]_vars

(* ---------------- the claims ---------------- *)

\* init() ran to its end with a renderer: nothing of the instance is missing
FullyInitialized ==
    constructed /\ inputs.found /\ inputs.gl /\ inputs.rendererOk

\* construction stopped early: no container, no context, or no renderer
PartiallyInitialized ==
    constructed /\ ~(inputs.found /\ inputs.gl /\ inputs.rendererOk)

\* C1: on a fully initialized instance no sequence of operations, two
\* destroy() calls included, raises an error or disposes the renderer, the
\* material or the geometry more than once.
C1_ReleasedAtMostOnce ==
    FullyInitialized =>
        /\ ~thrown
        /\ released.renderer <= 1
        /\ released.material <= 1
        /\ released.geometry <= 1

\* C2: once destroy() has returned, no step advances the time, draws a frame
\* or leaves a frame request pending.
C2_NoTickAfterDestroy ==
    [][destroyCalls > 0 =>
          /\ time' = time
          /\ uTime' = uTime
          /\ frameCount' = frameCount
          /\ frames' = {}]_vars

\* C2 witness: destroy() ran on an instance whose frame loop was running.
C2_DestroyedWhileRunning ==
    destroyCalls > 0 /\ frameCount >= 2 /\ rafId # Null

\* C3: destroy() on an instance whose construction stopped early raises no
\* error and disposes nothing the instance never acquired.
C3_DestroySafeWhenPartial ==
    (PartiallyInitialized /\ destroyCalls > 0) =>
        /\ ~thrown
        /\ (released.renderer > 0 => renderer)
        /\ (released.material > 0 => material)
        /\ (released.geometry > 0 => geometry)

\* C4: a debounce callback that fires after destroy() neither resizes the
\* disposed renderer nor writes the resolution uniform of the disposed material.
C4_LateResizeIsNoOp ==
    ~usedAfterRelease

\* C5: whenever a frame was drawn, the surface's width and height were both
\* above zero at that draw.
C5_DrawsOnlyPositiveSize ==
    drawSize # <<>> => drawSize[1] > 0 /\ drawSize[2] > 0

\* C6: after N frames the time is N * FixedIncrement * the rotationSpeed the
\* caller supplied; with 0 supplied it stays 0.
C6_TimeFollowsSuppliedSpeed ==
    (constructed /\ inputs.found /\ inputs.opts.rotationSpeed.given) =>
        time = frameCount * FixedIncrement * inputs.opts.rotationSpeed.v

\* C7: any two accepted pointer updates are at least ThrottleMs apart, the
\* throttle stays closed while less than ThrottleMs have passed since the
\* last one, and the pointer position changes only in the step that accepts
\* an event: an event that was dropped is never applied later.
C7_ThrottleHolds ==
    /\ [](minGap >= ThrottleMs)
    /\ []((accepts > 0 /\ sinceAccept < ThrottleMs) => mouseMoveTimeout # Null)
    /\ [][mouse' # mouse =>
             /\ mouseMoveTimeout = Null
             /\ mouseMoveTimeout' # Null
             /\ sinceAccept' = 0]_vars

\* C7 witness: two updates were accepted and an event in between was dropped.
C7_TwoAcceptedOneDropped ==
    accepts = 2 /\ dropped

DebounceTimers == {t \in timers : t.kind = "debounce"}

\* C8: at most one debounce timer is pending, and it is due DebounceMs after
\* the last resize event; until it fires nothing is applied; when it fires,
\* at least DebounceMs after that event, the surface size and the resolution
\* uniform take the container's size of that moment, once; and nothing else
\* changes them.
C8_DebounceHolds ==
    /\ [](applied <= 1)
    /\ [](Cardinality(DebounceTimers) <= 1)
    /\ []((resizeTimeout # Null /\ applied = 0 /\ renderer /\ material) =>
             \E t \in DebounceTimers :
                 t.id = resizeTimeout /\ t.left = DebounceMs - sinceResize)
    /\ [][applied' > applied =>
             /\ sinceResize = DebounceMs
             /\ surfaceSize' = clientSize
             /\ uResolution' = clientSize]_vars
    /\ [][(constructed /\ (surfaceSize' # surfaceSize \/ uResolution' # uResolution))
             => applied' > applied]_vars

\* C8 witness: a burst of two resize events was applied once, with the size
\* the container had when the timer fired.
C8_BurstAppliedOnce ==
    /\ burst = 2 /\ applied = 1 /\ destroyCalls = 0
    /\ surfaceSize = clientSize /\ uResolution = clientSize

\* C9: with a probe that reports no context, init() builds no scene, renderer,
\* material or geometry, registers no listener, requests no frame, draws
\* nothing, and sets the container's background to transparent.
C9_DegradedBuildsNothing ==
    (constructed /\ inputs.found /\ ~inputs.gl) =>
        /\ ~scene /\ ~renderer /\ ~material /\ ~geometry
        /\ ~handleMouseMove /\ ~handleResize
        /\ ~mouseListener /\ ~resizeListener
        /\ rafId = Null /\ frames = {} /\ timers = {}
        /\ frameCount = 0 /\ time = 0
        /\ background = "transparent"

\* C9 witness: an instance built without a context, torn down afterwards.
C9_DegradedInstance ==
    constructed /\ inputs.found /\ ~inputs.gl /\ destroyCalls > 0

\* C10: when the renderer cannot be created after a successful probe, the
\* background becomes transparent, nothing is thrown, and no material,
\* geometry, listener or frame loop is built afterwards.
C10_RendererFailureDegrades ==
    (constructed /\ inputs.found /\ inputs.gl /\ ~inputs.rendererOk) =>
        /\ background = "transparent"
        /\ ~thrown
        /\ ~material /\ ~geometry
        /\ ~handleMouseMove /\ ~handleResize
        /\ ~mouseListener /\ ~resizeListener
        /\ frames = {} /\ frameCount = 0

\* C11 as stated: the draw of the frame that follows a pointer event uses that
\* event's position, and the draw of the frame that follows a resize event
\* uses the container's new size.
C11_EventsVisibleToNextDraw ==
    [][frameCount' > frameCount =>
          /\ ~pointerStale
          /\ (pendingResize => surfaceSize = clientSize)]_vars

\* C11: every pointer update the throttle accepts and every size the debounce
\* callback applies is what the next frame draws with: the uniform uMouse
\* holds the last accepted position, the surface and uResolution hold the last
\* applied size, and a frame draws on that surface.
C11_AcceptedAndAppliedVisible ==
    /\ [](uMouse = lastAccepted)
    /\ [](renderer => (surfaceSize = lastApplied /\ uResolution = lastApplied))
    /\ [][frameCount' > frameCount =>
             (drawSize' = lastApplied' /\ uMouse' = lastAccepted')]_vars

\* C11 witness: a frame was drawn after an accepted pointer update away from
\* the centre and after the debounce callback applied a resize.
C11_DrawnAfterUpdateAndResize ==
    /\ frameCount >= 2 /\ accepts > 0 /\ ~pointerStale
    /\ uMouse = lastAccepted /\ uMouse # ZeroVector
    /\ applied = 1 /\ ~pendingResize /\ sinceResize = DebounceMs
    /\ drawSize = lastApplied

\* C12: when the caller supplies an option that violates its constraint (an
\* intensity or noiseIntensity below 0, a glowAmount, pillarWidth or
\* pillarHeight of 0 or below), construction raises an error and builds no
\* scene, renderer, material, geometry, listener or frame loop.
C12_InvalidOptionRejected ==
    (/\ constructed /\ inputs.found
     /\ \/ (inputs.opts.intensity.given /\ inputs.opts.intensity.v < 0)
        \/ (inputs.opts.noiseIntensity.given /\ inputs.opts.noiseIntensity.v < 0)
        \/ (inputs.opts.glowAmount.given /\ inputs.opts.glowAmount.v <= 0)
        \/ (inputs.opts.pillarWidth.given /\ inputs.opts.pillarWidth.v <= 0)
        \/ (inputs.opts.pillarHeight.given /\ inputs.opts.pillarHeight.v <= 0))
    => /\ thrown
       /\ ~scene /\ ~renderer /\ ~material /\ ~geometry
       /\ ~mouseListener /\ ~resizeListener
       /\ frames = {} /\ frameCount = 0

\* C13 as stated: under every rotationSpeed no step makes the time smaller,
\* and only a frame writes it.
C13_TimeNeverDecreases ==
    [][/\ time' >= time
       /\ (time' # time => frameCount' = frameCount + 1)]_vars

\* C13: under every configuration whose rotationSpeed is not negative (an
\* absent or zero value counts as the default 0.3) no step makes the time
\* smaller; under every configuration only a frame, the first one drawn by
\* init() included, writes the time, and a frame moves it by
\* FixedIncrement * rotationSpeed.
C13_TimeMonotoneForForwardSpeed ==
    [][/\ (options'.rotationSpeed >= 0 => time' >= time)
       /\ (time' # time =>
              /\ frameCount' = frameCount + 1
              /\ time' = time + FixedIncrement * options'.rotationSpeed)]_vars

\* C13 witness: three frames of an instance that turns forward.
C13_ForwardFrames ==
    frameCount = 3 /\ options.rotationSpeed > 0 /\ time > 0 /\ uTime = time

\* C14 as stated: the ratio given to the renderer is the display's ratio
\* clamped to the range from 1 to 2.
C14_RatioClampedBetweenOneAndTwo ==
    renderer =>
        /\ pixelRatio >= RatioOne
        /\ pixelRatio <= 2 * RatioOne
        /\ (inputs.dpr \in RatioOne..(2 * RatioOne) => pixelRatio = inputs.dpr)

\* C14: the ratio given to the renderer is the display's ratio capped at 2:
\* never above 2, the display's own ratio when that is 2 or less (a ratio
\* below 1 included), and no later step changes it.
C14_RatioCappedAtTwo ==
    /\ [](renderer =>
             /\ pixelRatio <= 2 * RatioOne
             /\ (inputs.dpr <= 2 * RatioOne => pixelRatio = inputs.dpr)
             /\ (inputs.dpr > 2 * RatioOne => pixelRatio = 2 * RatioOne))
    /\ [][constructed => pixelRatio' = pixelRatio]_vars

\* C14 witness: a renderer on a display of ratio 3 that drew two frames.
C14_CappedOnDenseDisplay ==
    renderer /\ inputs.dpr = 3 * RatioOne /\ pixelRatio = 2 * RatioOne
    /\ frameCount >= 2

\* C16: once destroy() has returned, no operation on the instance, a further
\* destroy() or a call of animate() included, advances the time, draws a
\* frame or leaves a frame request pending.
C16_StoppedIsTerminal ==
    [][destroyCalls > 0 =>
          /\ time' = time
          /\ frameCount' = frameCount
          /\ frames' = {}]_vars

\* uInteractive: { value: this.options.interactive }
uInteractive == options.interactive

\* C17: in a non-interactive instance no pointer listener is registered, the
\* pointer vector and the uniform uMouse stay (0, 0), and the rotation angle
\* of every frame comes from the time; the angle comes from the pointer only
\* in an interactive instance whose pointer vector is not (0, 0).
C17_PointerOnlyWhenInteractive ==
    /\ (constructed /\ options.defined /\ ~options.interactive) =>
          /\ ~mouseListener /\ ~handleMouseMove
          /\ mouse = ZeroVector /\ uMouse = ZeroVector
          /\ \A t \in timers : t.kind # "throttle"
          /\ AngleSources(uInteractive, uMouse) = {"time"}
    /\ ("pointer" \in AngleSources(uInteractive, uMouse)) =>
          (options.interactive /\ uMouse # ZeroVector)

\* C17 witness: a non-interactive instance drew two frames and saw a resize.
C17_NonInteractiveFrames ==
    /\ material /\ renderer /\ ~options.interactive
    /\ frameCount >= 2 /\ time > 0 /\ applied = 1

\* C18: after every accepted pointer update both coordinates of the stored
\* position are numbers between -1 and 1, the left/top corner being stored as
\* (-1, 1) and the right/bottom corner as (1, -1), whatever the size of the
\* container's rectangle, a zero width or height included.
C18_AcceptedInsideUnitSquare ==
    accepts > 0 =>
        /\ \A i \in 1..2 : mouse[i][2] > 0 /\ Abs(mouse[i][1]) <= mouse[i][2]
        /\ mouse = lastAccepted

\* C19: at most one frame request is pending at any time, rafId is the handle
\* of the pending one, and the step of destroy() leaves none pending.
C19_OnePendingFrame ==
    /\ [](Cardinality(frames) <= 1)
    /\ [](frames # {} => frames = {rafId})
    /\ [][destroyCalls' > destroyCalls => frames' = {}]_vars

\* C19 witness: destroy() ran while the request of the third frame was pending.
C19_CancelledPendingFrame ==
    destroyCalls = 1 /\ frameCount = 2 /\ rafId # Null /\ frames = {}

\* C20: every pass of the raymarch loop leaves a step of at least 0.01 in
\* fieldDistance and, when it goes on, adds at least 0.01 to depth; the loop
\* never ends by the test fieldDistance < EPSILON: it ends with depth above
\* maxDepth or after MaxIterations passes.
C20_StepNeverBelowFloor ==
    /\ [](marchExit # "surface")
    /\ [](marchExit = "depth" => depth > maxDepth)
    /\ [](marchExit = "count" => iteration = MaxIterations)
    /\ [][marchExit = "running" => fieldDistance' >= StepFloor]_vars
    /\ [][iteration' = iteration + 1 => depth' >= depth + StepFloor]_vars

\* C20 witness: a loop that ran all its passes and met a zero field value in
\* the last one, without depth passing maxDepth.
C20_AllPassesOnSurface ==
    /\ marchExit = "count" /\ iteration = MaxIterations
    /\ fieldDistance = StepFloor /\ depth <= maxDepth

====
